---- MODULE Spec2Model ----
(***************************************************************************)
(* Model of src/src/bioos_mcp/tools/dockstore_search.py:                   *)
(*   DockstoreSearch._build_search_body  (request construction)            *)
(*   DockstoreSearch.search              (one gateway call per search)     *)
(*   DockstoreSearch.format_results      (ranking, truncation, rendering)  *)
(*   main                                (result handling of the CLI)      *)
(*                                                                         *)
(* Python values are represented as follows.  A dict with a fixed key set  *)
(* is a record; a list is a sequence; None is the record NoneResult (for   *)
(* a response) or the string NoneStr (for an optional string); the JSON    *)
(* booleans of the filter conditions are the strings "True" / "False";     *)
(* floats are integers (boosts 14.0 -> 14, scores in hundredths).          *)
(***************************************************************************)
EXTENDS Integers, Sequences, FiniteSets, TLC

VARIABLES
    pc,               \* position of the caller / of the search coroutine
    queries,          \* argument of search / _build_search_body
    is_sentence,      \* argument
    query_type,       \* argument
    descriptor_type,  \* argument
    verified_only,    \* argument
    include_archived, \* argument
    search_body,      \* the value returned by _build_search_body
    outcome,          \* what happened inside search (environment's choice)
    calls,            \* client.post calls made by the current search
    searches,         \* searches started on this client
    total_calls,      \* client.post calls made by all searches so far
    results,          \* the value returned by search / given to format_results
    output_full,      \* argument of format_results
    formatted,        \* the value returned by format_results
    printed,          \* what main printed for the result
    log               \* set of <<outcome, results>> of the completed searches

vars == <<pc, queries, is_sentence, query_type, descriptor_type, verified_only,
          include_archived, search_body, outcome, calls, searches, total_calls,
          results, output_full, formatted, printed, log>>

(***************************************************************************)
(* Bounds of the model.                                                    *)
(***************************************************************************)
MaxSize == 6        \* size of a clause list: clauses + terms + fields
MaxHits == 6        \* hits in a response
MaxSearches == 2    \* searches made on one client

(***************************************************************************)
(* Generic helpers.                                                        *)
(***************************************************************************)
Min(a, b) == IF a < b THEN a ELSE b

SeqsOfLen(S, n) == [1..n -> S]

RECURSIVE Flatten(_)
Flatten(ss) == IF ss = <<>> THEN <<>> ELSE Head(ss) \o Flatten(Tail(ss))

NoneStr == "<None>"
Unset == "<unset>"

(***************************************************************************)
(* _build_search_body                                                      *)
(***************************************************************************)
PathFields == {"full_workflow_path", "tool_path"}
NameFields == {"description", "workflowName", "name"}
CategoryFields == {"categories.name", "categories.displayName"}
AuthorFields == {"all_authors.name", "organization"}
FormatFields == {"labels.value", "input_file_formats.value", "output_file_formats.value"}
OtherFields == {"descriptorType", "workflowVersions.sourceFiles.content"}

Fields == PathFields \cup NameFields \cup CategoryFields \cup AuthorFields
            \cup FormatFields \cup OtherFields

\* BoostValue with the else branch lost: the initial 1.0 of line 194 survives
BoostValueInitial(field) ==
    IF field \in {"full_workflow_path", "tool_path"} THEN 14
    ELSE IF field \in {"description", "workflowName", "name"} THEN 10
    ELSE IF field \in {"categories.name", "categories.displayName"} THEN 8
    ELSE IF field \in {"all_authors.name", "organization"} THEN 6
    ELSE IF field \in {"labels.value", "input_file_formats.value",
                       "output_file_formats.value"} THEN 4
    ELSE 1

\* lines 194-206: the if/elif chain that resolves the boost of a field
BoostValue(field) ==
    IF field \in {"full_workflow_path", "tool_path"} THEN 14
    ELSE IF field \in {"description", "workflowName", "name"} THEN 10
    ELSE IF field \in {"categories.name", "categories.displayName"} THEN 8
    ELSE IF field \in {"all_authors.name", "organization"} THEN 6
    ELSE IF field \in {"labels.value", "input_file_formats.value",
                       "output_file_formats.value"} THEN 4
    ELSE 2

\* line 213: f"*{term}*"
WildcardValue(term) == "*" \o term \o "*"

\* MatchType with the two branches exchanged
MatchTypeSwapped(sentence) == IF sentence THEN "match" ELSE "match_phrase"

\* line 220: "match_phrase" if is_sentence else "match"
MatchType(sentence) == IF sentence THEN "match_phrase" ELSE "match"

\* lines 209-228: the condition appended to should for one (term, field)
ShouldCondition(term, field, qtype, sentence) ==
    IF qtype = "wildcard"
    THEN [kind |-> "wildcard", field |-> field, key |-> "value",
          text |-> WildcardValue(term), case_insensitive |-> TRUE,
          boost |-> BoostValue(field)]
    ELSE [kind |-> MatchType(sentence), field |-> field, key |-> "query",
          text |-> term, case_insensitive |-> FALSE,
          boost |-> BoostValue(field)]

\* Zip that pairs every term, reusing the last field when the fields run out
ZipEveryTerm(terms, fields) ==
    IF fields = <<>> THEN <<>>
    ELSE [i \in 1..Len(terms) |-> <<terms[i], fields[Min(i, Len(fields))]>>]

\* line 192: zip(terms, fields) stops at the shorter of the two lists
Zip(terms, fields) ==
    [i \in 1..Min(Len(terms), Len(fields)) |-> <<terms[i], fields[i]>>]

\* lines 189-228: what one clause appends to should
ClauseConditions(query, qtype, sentence) ==
    LET pairs == Zip(query.terms, query.fields)
    IN  [i \in 1..Len(pairs) |->
            ShouldCondition(pairs[i][1], pairs[i][2], qtype, sentence)]

\* lines 188-228: the loop over the clauses
ShouldList(qs, qtype, sentence) ==
    Flatten([i \in 1..Len(qs) |-> ClauseConditions(qs[i], qtype, sentence)])

\* lines 172-175: truthiness of descriptor_type (None and "" are falsy)
DescriptorFilter(dtype) ==
    IF dtype # NoneStr /\ dtype # ""
    THEN <<[field |-> "descriptorType", value |-> dtype]>> ELSE <<>>

\* lines 177-180
VerifiedFilter(verified) ==
    IF verified THEN <<[field |-> "verified", value |-> "True"]>> ELSE <<>>

\* ArchivedFilter with the test inverted
ArchivedFilterInverted(archived) ==
    IF archived THEN <<[field |-> "archived", value |-> "False"]>> ELSE <<>>

\* lines 182-185
ArchivedFilter(archived) ==
    IF ~archived THEN <<[field |-> "archived", value |-> "False"]>> ELSE <<>>

\* lines 171-185
FilterList(dtype, verified, archived) ==
    DescriptorFilter(dtype) \o VerifiedFilter(verified) \o ArchivedFilter(archived)

\* lines 120-230
BuildSearchBody(qs, sentence, qtype, dtype, verified, archived) ==
    [size |-> 201,
     sort |-> <<[field |-> "archived", order |-> "asc"],
                [field |-> "_score", order |-> "desc"]>>,
     must |-> <<[kind |-> "match", field |-> "_index", text |-> "workflows"]>>,
     should |-> ShouldList(qs, qtype, sentence),
     minimum_should_match |-> 1,
     filter |-> FilterList(dtype, verified, archived)]

\* line 189: query.get raises when an element of queries is not a dict
BuildRaises(qs) == \E i \in 1..Len(qs) : ~qs[i].is_dict

(***************************************************************************)
(* Inputs of _build_search_body.                                           *)
(***************************************************************************)
Terms == {"rna", "seq"}
ListFields == {"description", "descriptorType"}
QueryTypes == {"match_phrase", "wildcard"}
DescriptorTypes == {NoneStr, "", "WDL", "CWL", "NFL"}

Clause(terms, fields) == [is_dict |-> TRUE, terms |-> terms, fields |-> fields]

\* the clauses with k terms and fields in all
ClausesOfSize(k) ==
    UNION {{Clause(t, f) : t \in SeqsOfLen(Terms, n), f \in SeqsOfLen(ListFields, k - n)}
           : n \in 0..k}

\* the clause lists whose clauses, terms and fields number exactly n
RECURSIVE ListsOfSize(_)
ListsOfSize(n) ==
    IF n = 0 THEN {<<>>}
    ELSE UNION {{<<c>> \o rest : c \in ClausesOfSize(k - 1), rest \in ListsOfSize(n - k)}
                : k \in 1..n}

\* lines 400-408: the clause main builds from one -q TERM FIELD OPERATOR
MainClause(term, field) == Clause(<<term>>, <<field>>)

QueryInputs ==
    (UNION {ListsOfSize(n) : n \in 0..MaxSize})
        \cup {<<MainClause(t, f)>> : t \in Terms, f \in Fields}

(***************************************************************************)
(* Responses.  A response is None or a dict; keys is the set of its        *)
(* top-level keys, has_list says whether results["hits"] has a "hits"      *)
(* key, hits is that list.  A hit carries full_workflow_path (path) and    *)
(* _score; NoScore stands for a hit without the "_score" key.              *)
(***************************************************************************)
NoScore == -1
ScoreVals == {10, 30, 50, 80, 90}
ScoreOpts == ScoreVals \cup {NoScore}

NoneResult == [is_none |-> TRUE, keys |-> {}, has_list |-> FALSE, hits |-> <<>>]

Response(keys, has_list, hits) ==
    [is_none |-> FALSE, keys |-> keys, has_list |-> has_list, hits |-> hits]

\* line 270: {"error": "Request timed out after 30 seconds"}
TimeoutResult == Response({"error"}, FALSE, <<>>)

Hit(i, score) == [path |-> i, _score |-> score]

\* the hit list whose i-th hit is document i with score scores[i]
HitList(scores) == [i \in 1..Len(scores) |-> Hit(i, scores[i])]

\* a response of the search service with the given hit list
HitsResponse(hits) == Response({"took", "hits"}, TRUE, hits)

(***************************************************************************)
(* format_results                                                          *)
(***************************************************************************)
\* Python truthiness of results: None and the empty dict are falsy
Falsy(r) == r.is_none \/ r.keys = {}

\* line 279
NoHits(r) == Falsy(r) \/ "hits" \notin r.keys

Line(kind, total, top, path, score) ==
    [kind |-> kind, total |-> total, top |-> top, path |-> path, score |-> score]

\* line 280: the str "No matching workflows found"
NoMatchMessage == [is_list |-> FALSE, lines |-> <<Line("no_match", 0, 0, 0, 0)>>]

\* line 285: results["hits"].get("hits", [])
HitsOf(r) == IF r.has_list THEN r.hits ELSE <<>>

\* lines 286-311: hit.get("_score", 0) and source.get('full_workflow_path', '')
WorkflowInfo(hit) ==
    [path |-> hit.path, score |-> IF hit._score = NoScore THEN 0 ELSE hit._score]

\* lines 285-313
Workflows(r) == [i \in 1..Len(HitsOf(r)) |-> WorkflowInfo(HitsOf(r)[i])]

\* InsertByScore of a sort that is not stable: wf goes before its equals
RECURSIVE InsertBeforeEqual(_, _)
InsertBeforeEqual(sorted, wf) ==
    IF sorted = <<>> THEN <<wf>>
    ELSE IF Head(sorted).score > wf.score
         THEN <<Head(sorted)>> \o InsertBeforeEqual(Tail(sorted), wf)
         ELSE <<wf>> \o sorted

\* where list.sort puts wf among already sorted ones: behind every element
\* whose score is not lower (the sort is stable, also with reverse=True)
RECURSIVE InsertByScore(_, _)
InsertByScore(sorted, wf) ==
    IF sorted = <<>> THEN <<wf>>
    ELSE IF Head(sorted).score >= wf.score
         THEN <<Head(sorted)>> \o InsertByScore(Tail(sorted), wf)
         ELSE <<wf>> \o sorted

\* line 315: workflows.sort(key=lambda x: x['score'], reverse=True)
RECURSIVE SortByScore(_)
SortByScore(ws) ==
    IF ws = <<>> THEN <<>>
    ELSE InsertByScore(SortByScore(SubSeq(ws, 1, Len(ws) - 1)), ws[Len(ws)])

\* DisplayCount without the cap
DisplayAll(total_results) == total_results

\* line 317
DisplayCount(total_results) == Min(total_results, 5)

\* lines 319-322
FoundLine(total_results) ==
    IF total_results > 5
    THEN Line("found_top", total_results, DisplayCount(total_results), 0, 0)
    ELSE Line("found", total_results, 0, 0, 0)

\* lines 324-351: the hits of the model have no description and no detail
\* fields, so an entry is its link line and the separating empty line
EntryLines(wf) == <<Line("entry", 0, 0, wf.path, wf.score), Line("blank", 0, 0, 0, 0)>>

\* lines 277-356
FormatResults(r, full) ==
    IF NoHits(r) THEN NoMatchMessage
    ELSE LET workflows == SortByScore(Workflows(r))
             total_results == Len(workflows)
             shown == SubSeq(workflows, 1, DisplayCount(total_results))
         IN  [is_list |-> full,
              lines |-> <<Line("title", 0, 0, 0, 0), FoundLine(total_results)>>
                          \o Flatten([i \in 1..Len(shown) |-> EntryLines(shown[i])])]

\* the response of the end-to-end scenario: 7 hits given in descending order
ScenarioResponse == HitsResponse(HitList(<<90, 90, 80, 50, 50, 30, 10>>))

\* responses without a usable hit list
OtherResults ==
    {NoneResult, Response({}, FALSE, <<>>), TimeoutResult,
     Response({"took"}, FALSE, <<>>), Response({"hits"}, FALSE, <<>>)}

(***************************************************************************)
(* Specification of the request construction: the inputs are drawn in      *)
(* Init and Build applies _build_search_body to them.                      *)
(***************************************************************************)
Idle ==
    /\ outcome = Unset /\ calls = 0 /\ searches = 0 /\ total_calls = 0
    /\ printed = Unset /\ log = {}

InitBuild ==
    /\ pc = "build"
    /\ queries \in QueryInputs
    /\ is_sentence \in BOOLEAN
    /\ query_type \in QueryTypes
    /\ descriptor_type \in DescriptorTypes
    /\ verified_only \in BOOLEAN
    /\ include_archived \in BOOLEAN
    /\ search_body = Unset
    /\ results = NoneResult /\ output_full = FALSE /\ formatted = Unset
    /\ Idle

Build ==
    /\ pc = "build"
    /\ search_body' = BuildSearchBody(queries, is_sentence, query_type,
                                      descriptor_type, verified_only, include_archived)
    /\ pc' = "built"
    /\ UNCHANGED <<queries, is_sentence, query_type, descriptor_type, verified_only,
                   include_archived, outcome, calls, searches, total_calls, results,
                   output_full, formatted, printed, log>>

NextBuild == Build

SpecBuild == InitBuild /\ [][NextBuild]_vars

(***************************************************************************)
(* Specification of the rendering: the response is drawn in Init and       *)
(* Format applies format_results to it in either output mode.              *)
(***************************************************************************)
InitFormat ==
    /\ pc = "format"
    /\ \/ results \in OtherResults
       \/ results = ScenarioResponse
       \/ \E n \in 0..MaxHits : \E scores \in SeqsOfLen(ScoreOpts, n) :
            results = HitsResponse(HitList(scores))
    /\ queries = <<>> /\ is_sentence = FALSE /\ query_type = "match_phrase"
    /\ descriptor_type = NoneStr /\ verified_only = FALSE /\ include_archived = FALSE
    /\ search_body = Unset /\ output_full = FALSE /\ formatted = Unset
    /\ Idle

Format ==
    /\ pc = "format"
    /\ \E full \in BOOLEAN :
        /\ output_full' = full
        /\ formatted' = FormatResults(results, full)
    /\ pc' = "formatted"
    /\ UNCHANGED <<queries, is_sentence, query_type, descriptor_type, verified_only,
                   include_archived, search_body, outcome, calls, searches,
                   total_calls, results, printed, log>>

NextFormat == Format

SpecFormat == InitFormat /\ [][NextFormat]_vars

(***************************************************************************)
(* search and its callers.                                                 *)
(***************************************************************************)
\* an element of queries that is not a dict (None)
NotADict == [is_dict |-> FALSE, terms |-> <<>>, fields |-> <<>>]

SearchQueries ==
    {<<MainClause("rna", "description")>>,
     <<MainClause("rna", "description"), MainClause("seq", "organization")>>,
     <<NotADict>>}

\* what client.post and response.json() can do
GatewayOutcomes == {"success", "bad_status", "timeout", "transport_error", "bad_json"}

\* the documents the service can answer with
GatewayResponses ==
    {HitsResponse(<<>>), HitsResponse(HitList(<<90>>)), HitsResponse(HitList(<<50, 90>>)),
     Response({"took"}, FALSE, <<>>)}

\* lines 263-275: the value search returns for what the gateway call did
SearchReturn(o, response) ==
    IF o = "success" THEN response              \* line 267
    ELSE IF o = "bad_status" THEN NoneResult    \* lines 263-265
    ELSE IF o = "timeout" THEN TimeoutResult    \* lines 268-270
    ELSE NoneResult                             \* lines 271-275

\* AfterOutcome of a search that sends the request again after a timeout
RetryOnTimeout(o) == IF o = "timeout" THEN "sending" ELSE "returned"

\* lines 263-275: every branch after the call returns
AfterOutcome(o) == "returned"

\* line 424: not results or "hits" not in results or not results["hits"].get("hits")
MainNotFound(r) == NoHits(r) \/ Len(HitsOf(r)) = 0

\* line 425: the message main prints instead of a rendering
NotFoundPrinted == [is_list |-> FALSE, lines |-> <<Line("not_found", 0, 0, 0, 0)>>]

\* lines 424-429
MainOutput(r, full) == IF MainNotFound(r) THEN NotFoundPrinted ELSE FormatResults(r, full)

Init ==
    /\ pc = "idle"
    /\ queries = <<>> /\ is_sentence = FALSE /\ query_type = "match_phrase"
    /\ descriptor_type = NoneStr /\ verified_only = FALSE /\ include_archived = FALSE
    /\ search_body = Unset
    /\ results = NoneResult /\ output_full = FALSE /\ formatted = Unset
    /\ Idle

\* lines 242-251 and 271-275: the call of search up to the built request body
SearchCall ==
    /\ pc = "idle"
    /\ searches < MaxSearches
    /\ searches' = searches + 1
    /\ \E qs \in SearchQueries, sentence \in BOOLEAN, qtype \in QueryTypes,
          dtype \in {NoneStr, "WDL"}, verified \in BOOLEAN, archived \in BOOLEAN :
        /\ queries' = qs /\ is_sentence' = sentence /\ query_type' = qtype
        /\ descriptor_type' = dtype /\ verified_only' = verified
        /\ include_archived' = archived
        /\ IF BuildRaises(qs)
           THEN /\ outcome' = "build_error"
                /\ results' = NoneResult
                /\ log' = log \cup {<<"build_error", NoneResult>>}
                /\ pc' = "returned"
                /\ UNCHANGED search_body
           ELSE /\ search_body' = BuildSearchBody(qs, sentence, qtype, dtype,
                                                  verified, archived)
                /\ pc' = "sending"
                /\ UNCHANGED <<outcome, results, log>>
    /\ UNCHANGED <<calls, total_calls, output_full, formatted, printed>>

\* lines 254-260: the request goes out and the coroutine waits
Post ==
    /\ pc = "sending"
    /\ calls' = calls + 1
    /\ total_calls' = total_calls + 1
    /\ pc' = "awaiting"
    /\ UNCHANGED <<queries, is_sentence, query_type, descriptor_type, verified_only,
                   include_archived, search_body, outcome, searches, results,
                   output_full, formatted, printed, log>>

\* lines 261-275: the call resolves and search returns
Resolve ==
    /\ pc = "awaiting"
    /\ \E o \in GatewayOutcomes, response \in GatewayResponses :
        /\ outcome' = o
        /\ results' = SearchReturn(o, response)
        /\ log' = log \cup {<<o, SearchReturn(o, response)>>}
        /\ pc' = AfterOutcome(o)
    /\ UNCHANGED <<queries, is_sentence, query_type, descriptor_type, verified_only,
                   include_archived, search_body, calls, searches, total_calls,
                   output_full, formatted, printed>>

\* a caller hands the value search returned to format_results
FormatCall ==
    /\ pc = "returned"
    /\ \E full \in BOOLEAN :
        /\ output_full' = full
        /\ formatted' = FormatResults(results, full)
    /\ pc' = "formatted"
    /\ UNCHANGED <<queries, is_sentence, query_type, descriptor_type, verified_only,
                   include_archived, search_body, outcome, calls, searches,
                   total_calls, results, printed, log>>

\* lines 424-429: main handles the value search returned
MainPrint ==
    /\ pc = "returned"
    /\ \E full \in BOOLEAN :
        /\ output_full' = full
        /\ printed' = MainOutput(results, full)
    /\ pc' = "printed"
    /\ UNCHANGED <<queries, is_sentence, query_type, descriptor_type, verified_only,
                   include_archived, search_body, outcome, calls, searches,
                   total_calls, results, formatted, log>>

\* the client is used for another search; the locals of the last one are gone
NextSearch ==
    /\ pc \in {"formatted", "printed"}
    /\ pc' = "idle"
    /\ queries' = <<>> /\ is_sentence' = FALSE /\ query_type' = "match_phrase"
    /\ descriptor_type' = NoneStr /\ verified_only' = FALSE /\ include_archived' = FALSE
    /\ search_body' = Unset /\ outcome' = Unset /\ calls' = 0
    /\ results' = NoneResult /\ output_full' = FALSE
    /\ formatted' = Unset /\ printed' = Unset
    /\ UNCHANGED <<searches, total_calls, log>>

Next == SearchCall \/ Post \/ Resolve \/ FormatCall \/ MainPrint \/ NextSearch

Spec == Init /\ [][Next]_vars

(***************************************************************************)
(* Properties of the request construction (SpecBuild).                     *)
(***************************************************************************)
Should == search_body.should

Filter == search_body.filter

ArchivedConditions == {i \in 1..Len(Filter) : Filter[i].field = "archived"}

\* C1: the filter list of the built request contains archived=false exactly
\* once when include_archived is false and no condition on archived when it
\* is true, whatever the other arguments are.
C1_ArchivedFilter ==
    pc = "built" =>
        IF include_archived
        THEN ArchivedConditions = {}
        ELSE /\ Cardinality(ArchivedConditions) = 1
             /\ \A i \in ArchivedConditions : Filter[i].value = "False"

C1_Witness ==
    /\ pc = "built"
    /\ ~include_archived /\ verified_only /\ descriptor_type = "WDL"
    /\ Len(queries) = 2
    /\ Len(Filter) = 3
    /\ Filter[3] = [field |-> "archived", value |-> "False"]

\* the number of positions of a clause that have both a term and a field
PairCount(q) == IF Len(q.terms) <= Len(q.fields) THEN Len(q.terms) ELSE Len(q.fields)

\* the number of conditions that the clauses before clause c stand for
RECURSIVE PairsBefore(_)
PairsBefore(c) == IF c = 1 THEN 0 ELSE PairsBefore(c - 1) + PairCount(queries[c - 1])

\* the number of terms of the clauses before clause c
RECURSIVE TermsBefore(_)
TermsBefore(c) == IF c = 1 THEN 0 ELSE TermsBefore(c - 1) + Len(queries[c - 1].terms)

\* the condition at position k is one for term t on field f
IsFor(k, t, f) ==
    /\ k \in 1..Len(Should)
    /\ Should[k].field = f
    /\ Should[k].text \in {t, "*" \o t \o "*"}

\* C2 as stated: the should list has one condition for every term of every
\* clause, so its length is the sum of the numbers of terms of the clauses.
C2_OnePerTerm ==
    pc = "built" => Len(Should) = TermsBefore(Len(queries) + 1)

\* C2 as amended: the should list has one condition for every position of
\* every clause that has both a term and a field, the i-th term paired with
\* the i-th field, in clause order then position order, repeated pairs
\* emitted again; its length is the sum over the clauses of the smaller of
\* the numbers of terms and of fields, 0 for the empty clause list.
C2_OnePerPair ==
    pc = "built" =>
        /\ Len(Should) = PairsBefore(Len(queries) + 1)
        /\ \A c \in 1..Len(queries) : \A i \in 1..PairCount(queries[c]) :
              IsFor(PairsBefore(c) + i, queries[c].terms[i], queries[c].fields[i])
        /\ (queries = <<>> => Should = <<>>)

C2_Witness ==
    /\ pc = "built"
    /\ Len(queries) = 1
    /\ queries[1].terms = <<"rna", "rna", "seq">>
    /\ queries[1].fields = <<"description", "description">>
    /\ Len(Should) = 2
    /\ Should[1] = Should[2]

\* the boost table of the specification, one row per tier
BoostTable ==
    <<[fields |-> PathFields, boost |-> 14], [fields |-> NameFields, boost |-> 10],
      [fields |-> CategoryFields, boost |-> 8], [fields |-> AuthorFields, boost |-> 6],
      [fields |-> FormatFields, boost |-> 4]>>

\* first matching row wins, 2 when no row matches
TableBoost(f) ==
    LET rows == {r \in 1..Len(BoostTable) : f \in BoostTable[r].fields}
    IN  IF rows = {} THEN 2
        ELSE BoostTable[CHOOSE r \in rows : \A r2 \in rows : r <= r2].boost

\* C3: every should condition carries the boost the field-weight table gives
\* for its field (2 for a field outside the table), whatever the term, the
\* match mode, the sentence flag and the filters are.
C3_BoostByField ==
    pc = "built" => \A k \in 1..Len(Should) : Should[k].boost = TableBoost(Should[k].field)

C3_Witness ==
    /\ pc = "built"
    /\ query_type = "wildcard"
    /\ Len(Should) = 2
    /\ Should[1].field = "description" /\ Should[1].boost = 10
    /\ Should[2].field = "descriptorType" /\ Should[2].boost = 2

\* C4: the kind of every should condition is fixed by the match mode and the
\* sentence flag: wildcard mode gives case-insensitive wildcard conditions on
\* *term*, phrase mode gives match_phrase conditions on the term when the
\* sentence flag is set and match conditions on the term when it is not; no
\* request mixes kinds.
C4_KindByMode ==
    pc = "built" =>
        /\ \A c \in 1..Len(queries) : \A i \in 1..PairCount(queries[c]) :
              LET cond == Should[PairsBefore(c) + i]
                  t == queries[c].terms[i]
              IN  /\ query_type = "wildcard" =>
                        /\ cond.kind = "wildcard"
                        /\ cond.case_insensitive
                        /\ cond.text = "*" \o t \o "*"
                  /\ (query_type = "match_phrase" /\ is_sentence) =>
                        cond.kind = "match_phrase" /\ cond.text = t
                  /\ (query_type = "match_phrase" /\ ~is_sentence) =>
                        cond.kind = "match" /\ cond.text = t
        /\ \A k, l \in 1..Len(Should) : Should[k].kind = Should[l].kind

C4_Witness ==
    /\ pc = "built"
    /\ query_type = "match_phrase" /\ is_sentence
    /\ Len(Should) = 2
    /\ Should[1].kind = "match_phrase" /\ Should[1].text = "rna"
    /\ Should[2].kind = "match_phrase" /\ Should[2].text = "seq"

(***************************************************************************)
(* Properties of the rendering (SpecFormat).                               *)
(***************************************************************************)
\* the workflow entries of a rendering
Entries(out) == SelectSeq(out.lines, LAMBDA l : l.kind = "entry")

\* the "Found ..." line of a rendering
Header(out) == out.lines[2]

\* the score a hit is ranked by
Key(hit) == IF hit._score = NoScore THEN 0 ELSE hit._score

\* C6: for a response with n hits format_results renders min(n, 5) entries,
\* never more than 5; the header states n and says that only the top 5 are
\* shown exactly when n > 5.
C6_AtMostFive ==
    (pc = "formatted" /\ ~NoHits(results)) =>
        LET n == Len(HitsOf(results))
            e == Entries(formatted)
            h == Header(formatted)
        IN  /\ Len(e) <= 5
            /\ Len(e) = (IF n < 5 THEN n ELSE 5)
            /\ h.kind \in {"found", "found_top"}
            /\ h.total = n
            /\ (h.kind = "found_top") <=> (n > 5)
            /\ (h.kind = "found_top") => (h.top = 5)
            /\ formatted.is_list = output_full

C6_Witness ==
    /\ pc = "formatted"
    /\ output_full
    /\ Len(HitsOf(results)) = 6
    /\ Len(Entries(formatted)) = 5
    /\ Header(formatted) = Line("found_top", 6, 5, 0, 0)

\* C7: the rendered entries are hits of the response in non-increasing score
\* order, no hit left out scores higher than a rendered one, and hits with
\* equal scores keep their input order.
C7_TopByScore ==
    (pc = "formatted" /\ ~NoHits(results)) =>
        LET hits == HitsOf(results)
            e == Entries(formatted)
            shown == {e[i].path : i \in 1..Len(e)}
        IN  /\ \A i \in 1..Len(e) :
                  /\ e[i].path \in 1..Len(hits)
                  /\ e[i].score = Key(hits[e[i].path])
            /\ \A i, j \in 1..Len(e) : i < j =>
                  /\ e[i].score >= e[j].score
                  /\ e[i].path # e[j].path
                  /\ (e[i].score = e[j].score => e[i].path < e[j].path)
            /\ \A p \in (1..Len(hits)) \ shown : \A i \in 1..Len(e) :
                  /\ Key(hits[p]) <= e[i].score
                  /\ (Key(hits[p]) = e[i].score => e[i].path < p)

C7_Witness ==
    /\ pc = "formatted"
    /\ ~output_full
    /\ results = ScenarioResponse
    /\ Header(formatted) = Line("found_top", 7, 5, 0, 0)
    /\ [i \in 1..5 |-> Entries(formatted)[i].path] = <<1, 2, 3, 4, 5>>

\* C8: for a response with zero hits (absent, without hit list, or with an
\* empty hit list) format_results returns the 'no matches' message.
C8_ZeroHitsNoMatch ==
    (pc = "formatted" /\ Len(HitsOf(results)) = 0) => formatted = NoMatchMessage

(***************************************************************************)
(* Properties of search and its callers (Spec).                            *)
(***************************************************************************)
\* C5: a timed-out search is never shown as 'no matching workflows found',
\* neither by format_results nor by the result handling of main.
C5_TimeoutDistinct ==
    outcome = "timeout" =>
        /\ (pc = "formatted" => formatted # NoMatchMessage)
        /\ (pc = "printed" => printed # NotFoundPrinted)

InternalFailures == {"build_error", "transport_error", "bad_json"}

\* a completed search that found no results or got a non-success status
NoResultsOrBadStatus(entry) ==
    \/ entry[1] = "bad_status"
    \/ entry[1] = "success" /\ Len(HitsOf(entry[2])) = 0

\* C9: an internal failure of search reaches the caller as a returned value
\* and that value differs from the one of a search that found no results or
\* got a non-success status.
C9_InternalFailureDistinct ==
    /\ pc \in {"idle", "sending", "awaiting", "returned", "formatted", "printed"}
    /\ \A a, b \in log :
          (a[1] \in InternalFailures /\ NoResultsOrBadStatus(b)) => a[2] # b[2]

\* C10: a search makes at most one gateway call, exactly one when the request
\* body was built, none when it was not, and returns on the outcome of that
\* call; over any sequence of searches there are never more calls than
\* searches.
C10_OneCallPerSearch ==
    /\ calls <= 1
    /\ total_calls <= searches
    /\ pc = "sending" => calls = 0
    /\ pc = "awaiting" => calls = 1
    /\ pc \in {"returned", "formatted", "printed"} =>
          calls = (IF outcome = "build_error" THEN 0 ELSE 1)

C10_Witness ==
    /\ pc = "returned"
    /\ outcome = "timeout"
    /\ searches = 2
    /\ calls = 1
    /\ total_calls = 2

====
